---- MODULE Spec2Model ----
(***************************************************************************)
(* Game-session and score-submission protocol of the memory game server    *)
(* (src/server/storage.ts, the "API routes" part, lines 449-729):          *)
(* POST /api/games/start, POST /api/games, the periodic sweep, and the     *)
(* in-memory maps gameSessions, userSubmissionTracker, ipGameSubmissions.  *)
(*                                                                         *)
(* Time is Date.now() in milliseconds.  A handler runs synchronously up to *)
(* its first await; the only await of POST /api/games is                   *)
(* "await storage.createGame", so a submit is two steps: SubmitBegin (all  *)
(* checks and the sanitization) and SubmitResume / SubmitFail (what runs   *)
(* after the await).  POST /api/games/start has no await: one step.        *)
(***************************************************************************)
EXTENDS Integers, Sequences, FiniteSets, TLC

\* ---------------------------------------------------------------- constants
GAME_DURATION_SECONDS == 90
MIN_GAME_DURATION_SECONDS == 15
MAX_SCORE == 800
MAX_MATCHES == 8
USER_SUBMISSION_COOLDOWN_MS == 5000
SESSION_EXPIRY_MS == 150000
MAX_ACTIVE_SESSIONS_PER_USER == 3
MAX_GAMES_PER_IP_PER_HOUR == 100
ONE_HOUR_MS == 3600000
RATE_LIMIT_WINDOW == 60000
RATE_LIMIT_MAX == 100
CLEANUP_INTERVAL == 300000
MAX_MAP_SIZE == 5000

\* ------------------------------------------------------------------- bounds
\* Date.now() when the model starts observing the server.
T0 == 10000000
\* The clock is followed up to T0 + Horizon.
Horizon == 151000
\* Session ids handed out in one behaviour.
MaxStarts == 4
\* Submissions let through to storage.createGame in one behaviour.
MaxGames == 1
\* The same, and the session ids, where two handlers race on one session.
RaceGames == 2
RaceStarts == 1
\* The same where handlers run one after another.
SeqGames == 2
SeqStarts == 2
\* Session ids handed out where starts come at any instant.
LateStarts == 3
\* Where rateLimitMap is full: how long before T0 the requests of the other
\* addresses came, and how long before T0 "ip1" opened the window it has
\* used up.
CrowdAge == 20000
FullAge == 30000
\* Requests an address sends into a window it has opened.
FullBurst == 3
\* Sessions started and results stored where submits of different sessions
\* overlap.
CoStarts == 2
CoGames == 2
\* Session ids handed out where starts come in two waves.
LiveStarts == 4
\* The rate limiter is followed up to T0 + RateHorizon, on a server that has
\* been up, without traffic, for RateUptime.
RateHorizon == 121000
RateUptime == 240000
\* Request handlers that can be suspended at an await at the same time.
NumHandlers == 2
\* Age at T0 of the last submission an address already has on record, and
\* the time between two of them.
PreloadAge == 1000
PreloadGap == 30000

Users == {"u1", "u2"}
IPs == {"ip1", "ip2"}
\* Distinct values of Math.random().toString(36).substring(7), numbered.
Rands == 1..(MAX_ACTIVE_SESSIONS_PER_USER + 2)
Handlers == 1..NumHandlers

\* ------------------------------------------------------------------ helpers
Min(a, b) == IF a <= b THEN a ELSE b
Max(a, b) == IF a >= b THEN a ELSE b

\* Rounding down instead.
RoundSecondsDown(ms) == ms \div 1000

\* Math.round(ms / 1000) for ms >= 0: JavaScript rounds halves up.
RoundSeconds(ms) == (ms + 500) \div 1000

\* Math.ceil(ms / 1000).
CeilSeconds(ms) == (ms + 999) \div 1000

\* list.filter(t => t > after)
Filter(list, after) ==
    LET keep(t) == t > after IN SelectSeq(list, keep)

\* A Map as a function on the set of its keys.
MapSet(map, k, v) == [x \in DOMAIN map \cup {k} |-> IF x = k THEN v ELSE map[x]]
MapDelete(map, k) == [x \in DOMAIN map \ {k} |-> map[x]]
EmptyMap == [x \in {} |-> 0]

\* ------------------------------------------------------------------- state
VARIABLES
    now,                    \* Date.now()
    gameSessions,           \* Map<gameId, GameSession>
    userSubmissionTracker,  \* Map<userId, number>
    ipGameSubmissions,      \* Map<ip, number[]>
    handlers,               \* per request slot: the closure of a suspended submit
    games,                  \* rows of the games table, in insertion order
    resp,                   \* the last response sent at the current instant
    accepted,               \* history: one entry per 201, aligned with games
    issued,                 \* history: the ids start has handed out
    rateLimitMap,           \* Map<key, {count, resetTime}>, in insertion order
    lastCleanup             \* when cleanupExpiredEntries last cleaned

\* The state of the rate limiter, and everything else.
limiterVars == << rateLimitMap, lastCleanup >>
gameVars == << now, gameSessions, userSubmissionTracker, ipGameSubmissions,
               handlers, games, resp, accepted, issued >>

vars == << now, gameSessions, userSubmissionTracker, ipGameSubmissions,
           handlers, games, resp, accepted, issued, rateLimitMap, lastCleanup >>

\* `${userId}-${Date.now()}-${random}`
GameId(userId, t, rand) == << userId, t, rand >>
\* req.body.gameId absent (or otherwise falsy).
NoId == << >>

FieldNames == {"score", "bonus", "totalPoints", "timeRemaining", "matchesFound"}

IdleHandler ==
    [pc |-> "idle", userId |-> "", ip |-> "", gameId |-> NoId, now |-> 0,
     elapsedMs |-> 0, recentIpSubmissions |-> << >>, body |-> << >>,
     data |-> << >>]

\* res.status(status).json(...): the status, the kind of message and what
\* the message carries.
Response(status, msg, retryAfter, gameId, expiresAt) ==
    [status |-> status, msg |-> msg, retryAfter |-> retryAfter,
     gameId |-> gameId, expiresAt |-> expiresAt]

\* No response has been sent at the current instant.
NoResponse == Response(0, "none", 0, NoId, 0)

\* The server is observed from a moment at which address "ip1" has used up
\* its hourly quota (MAX_GAMES_PER_IP_PER_HOUR submissions accepted, one
\* after another, for other users behind the same address; all of them stay
\* within the hour up to the horizon) while "ip2" has nothing on record;
\* everything else is as constructed.
PreloadedIp ==
    [i \in 1..MAX_GAMES_PER_IP_PER_HOUR |->
        T0 - PreloadAge - (MAX_GAMES_PER_IP_PER_HOUR - i) * PreloadGap]

Init ==
    /\ now = T0
    /\ gameSessions = EmptyMap
    /\ userSubmissionTracker = EmptyMap
    /\ ipGameSubmissions = [x \in {"ip1"} |-> PreloadedIp]
    /\ handlers = [h \in Handlers |-> IdleHandler]
    /\ games = << >>
    /\ resp = NoResponse
    /\ accepted = << >>
    /\ issued = {}
    /\ rateLimitMap = << >>
    /\ lastCleanup = T0

\* ------------------------------------------------- POST /api/games/start
UserActiveSessions(userId) ==
    Cardinality({g \in DOMAIN gameSessions : gameSessions[g].userId = userId})

\* The cap compared with > instead of >=.
TooManyActiveSessionsStrict(userId) ==
    UserActiveSessions(userId) > MAX_ACTIVE_SESSIONS_PER_USER

TooManyActiveSessions(userId) ==
    UserActiveSessions(userId) >= MAX_ACTIVE_SESSIONS_PER_USER

\* A session that does not record the request's address.
NewSessionUnbound(gameId, userId, ip) ==
    [gameId |-> gameId, userId |-> userId, startedAt |-> now, ip |-> "unknown"]

NewSession(gameId, userId, ip) ==
    [gameId |-> gameId, userId |-> userId, startedAt |-> now, ip |-> ip]

\* The handler has no await: one step.  Its two reads of Date.now() (lines
\* 592 and 596) fall in the same millisecond.
Start(userId, ip, rand) ==
    /\ UNCHANGED << now, userSubmissionTracker, ipGameSubmissions, handlers,
                    games, accepted >>
    /\ IF TooManyActiveSessions(userId)
       THEN /\ resp' = Response(429, "TooManyActiveSessions", 0, NoId, 0)
            /\ UNCHANGED << gameSessions, issued >>
       ELSE LET gameId == GameId(userId, now, rand) IN
            /\ gameSessions' = MapSet(gameSessions, gameId,
                                      NewSession(gameId, userId, ip))
            /\ resp' = Response(200, "Started", 0, gameId,
                                now + SESSION_EXPIRY_MS)
            /\ issued' = issued \cup {gameId}

\* ------------------------------------------------------ POST /api/games
\* gameSessions.get(gameId) found nothing.
SessionMissing(gameId) == gameId \notin DOMAIN gameSessions

\* The server without the ownership check.
NotOwnerUnchecked(gameId, userId) == FALSE

\* session.userId !== userId
NotOwner(gameId, userId) == gameSessions[gameId].userId # userId

\* now - session.startedAt; actualElapsedSeconds is this over 1000.
ElapsedMs(gameId) == now - gameSessions[gameId].startedAt

\* A handler without the minimum play time.
TooFastNever(elapsedMs) == FALSE

\* The minimum compared with <= instead of <.
TooFastInclusive(elapsedMs) == elapsedMs <= MIN_GAME_DURATION_SECONDS * 1000

\* actualElapsedSeconds < MIN_GAME_DURATION_SECONDS
TooFast(elapsedMs) == elapsedMs < MIN_GAME_DURATION_SECONDS * 1000

\* The expiry compared with >= instead of >.
ExpiredInclusive(elapsedMs) == elapsedMs >= SESSION_EXPIRY_MS

\* actualElapsedSeconds > SESSION_EXPIRY_MS / 1000
Expired(elapsedMs) == elapsedMs > SESSION_EXPIRY_MS

\* ipGameSubmissions.get(ip) || []
IpSubmissions(ip) ==
    IF ip \in DOMAIN ipGameSubmissions THEN ipGameSubmissions[ip] ELSE << >>

\* ipSubmissions.filter(t => t > oneHourAgo)
RecentIpSubmissions(ip) == Filter(IpSubmissions(ip), now - ONE_HOUR_MS)

\* The quota compared with > instead of >=.
IpQuotaExceededStrict(recent) == Len(recent) > MAX_GAMES_PER_IP_PER_HOUR

IpQuotaExceeded(recent) == Len(recent) >= MAX_GAMES_PER_IP_PER_HOUR

\* lastSubmission && now - lastSubmission < USER_SUBMISSION_COOLDOWN_MS
CooldownActive(userId) ==
    /\ userId \in DOMAIN userSubmissionTracker
    /\ userSubmissionTracker[userId] # 0
    /\ now - userSubmissionTracker[userId] < USER_SUBMISSION_COOLDOWN_MS

\* The remaining cooldown rounded down instead of up.
RetryAfterFloor(userId) ==
    (USER_SUBMISSION_COOLDOWN_MS - (now - userSubmissionTracker[userId])) \div 1000

\* Math.ceil((USER_SUBMISSION_COOLDOWN_MS - (now - lastSubmission)) / 1000)
RetryAfter(userId) ==
    CeilSeconds(USER_SUBMISSION_COOLDOWN_MS - (now - userSubmissionTracker[userId]))

\* insertGameSchema.safeParse: every column of games but id and completedAt
\* is required (userId is supplied by the handler); body.present is the set
\* of fields the request carries with an integer value.
SchemaValid(body) == FieldNames \subseteq body.present

\* The clamps of lines 693-704.  After a successful parse no field is
\* nullish, so the ?? defaults never apply.
reportedTimeRemaining(body) ==
    Max(0, Min(GAME_DURATION_SECONDS, body.timeRemaining))
sanitizedMatches(body) == Max(0, Min(MAX_MATCHES, body.matchesFound))
\* The server without its own estimate.
serverTimeRemainingUnbounded(elapsedMs) == GAME_DURATION_SECONDS

serverTimeRemaining(elapsedMs) ==
    Max(0, Min(GAME_DURATION_SECONDS,
               GAME_DURATION_SECONDS - RoundSeconds(elapsedMs)))
sanitizedTimeRemaining(body, elapsedMs) ==
    Min(serverTimeRemaining(elapsedMs), reportedTimeRemaining(body))
maxScoreFromMatches(body) == sanitizedMatches(body) * 100
\* The score clamped to MAX_SCORE only.
sanitizedScoreUnmatched(body) == Max(0, Min(MAX_SCORE, body.score))

sanitizedScore(body) ==
    Max(0, Min(MAX_SCORE, Min(maxScoreFromMatches(body), body.score)))
bonus(body, elapsedMs) == sanitizedTimeRemaining(body, elapsedMs) * 10
totalPoints(body, elapsedMs) == sanitizedScore(body) + bonus(body, elapsedMs)

\* The input of safeParse, {...req.body, userId}: the caller's id replaces
\* whatever userId the body carries.
ParseInput(userId, body) == [body EXCEPT !.userId = userId]

\* A handler that stores the row under the userId the body carries.
GameDataFromBody(userId, body, elapsedMs) ==
    [userId |-> body.userId,
     score |-> sanitizedScore(body),
     bonus |-> bonus(body, elapsedMs),
     totalPoints |-> totalPoints(body, elapsedMs),
     timeRemaining |-> sanitizedTimeRemaining(body, elapsedMs),
     matchesFound |-> sanitizedMatches(body)]

\* The argument of storage.createGame: {...data, userId, score, bonus, ...}
\* with data the parsed ParseInput.  safeParse strips the unknown key gameId,
\* and every parsed field is overridden, userId by the caller's id again.
GameData(userId, body, elapsedMs) ==
    [userId |-> userId,
     score |-> sanitizedScore(body),
     bonus |-> bonus(body, elapsedMs),
     totalPoints |-> totalPoints(body, elapsedMs),
     timeRemaining |-> sanitizedTimeRemaining(body, elapsedMs),
     matchesFound |-> sanitizedMatches(body)]

Reject(status, msg) == Response(status, msg, 0, NoId, 0)

\* No response yet: the handler goes on to storage.createGame.
Proceed == Response(0, "Proceed", 0, NoId, 0)

\* A pipeline that also refuses a submit sent from another address than the
\* one the session was started from.
SubmitOutcomeIpBound(userId, ip, body) ==
    LET gameId == body.gameId IN
    IF gameId = NoId THEN Reject(400, "MissingSession")
    ELSE IF SessionMissing(gameId) THEN Reject(400, "InvalidOrExpiredSession")
    ELSE IF NotOwner(gameId, userId) \/ gameSessions[gameId].ip # ip
         THEN Reject(403, "SessionOwnershipMismatch")
    ELSE IF TooFast(ElapsedMs(gameId)) THEN Reject(400, "TooFast")
    ELSE IF Expired(ElapsedMs(gameId)) THEN Reject(400, "SessionExpired")
    ELSE IF IpQuotaExceeded(RecentIpSubmissions(ip))
         THEN Reject(429, "IpQuotaExceeded")
    ELSE IF CooldownActive(userId)
         THEN Response(429, "SubmissionTooFrequent", RetryAfter(userId),
                       NoId, 0)
    ELSE IF ~SchemaValid(body) THEN Reject(400, "InvalidGameData")
    ELSE Proceed

\* A pipeline that looks at the cooldown before the IP quota.
SubmitOutcomeCooldownFirst(userId, ip, body) ==
    LET gameId == body.gameId IN
    IF gameId = NoId THEN Reject(400, "MissingSession")
    ELSE IF SessionMissing(gameId) THEN Reject(400, "InvalidOrExpiredSession")
    ELSE IF NotOwner(gameId, userId) THEN Reject(403, "SessionOwnershipMismatch")
    ELSE IF TooFast(ElapsedMs(gameId)) THEN Reject(400, "TooFast")
    ELSE IF Expired(ElapsedMs(gameId)) THEN Reject(400, "SessionExpired")
    ELSE IF CooldownActive(userId)
         THEN Response(429, "SubmissionTooFrequent", RetryAfter(userId),
                       NoId, 0)
    ELSE IF IpQuotaExceeded(RecentIpSubmissions(ip))
         THEN Reject(429, "IpQuotaExceeded")
    ELSE IF ~SchemaValid(body) THEN Reject(400, "InvalidGameData")
    ELSE Proceed

\* The validation pipeline of lines 617-688: the response of the first check
\* that fails, or Proceed.
SubmitOutcome(userId, ip, body) ==
    LET gameId == body.gameId IN
    IF gameId = NoId THEN Reject(400, "MissingSession")
    ELSE IF SessionMissing(gameId) THEN Reject(400, "InvalidOrExpiredSession")
    ELSE IF NotOwner(gameId, userId) THEN Reject(403, "SessionOwnershipMismatch")
    ELSE IF TooFast(ElapsedMs(gameId)) THEN Reject(400, "TooFast")
    ELSE IF Expired(ElapsedMs(gameId)) THEN Reject(400, "SessionExpired")
    ELSE IF IpQuotaExceeded(RecentIpSubmissions(ip))
         THEN Reject(429, "IpQuotaExceeded")
    ELSE IF CooldownActive(userId)
         THEN Response(429, "SubmissionTooFrequent", RetryAfter(userId),
                       NoId, 0)
    ELSE IF ~SchemaValid(body) THEN Reject(400, "InvalidGameData")
    ELSE Proceed

Awaiting == {h \in Handlers : handlers[h].pc = "await"}
Idle == Handlers \ Awaiting

\* The closure of a handler suspended at "await storage.createGame(...)".
Closure(userId, ip, body) ==
    [pc |-> "await", userId |-> userId, ip |-> ip, gameId |-> body.gameId,
     now |-> now, elapsedMs |-> ElapsedMs(body.gameId),
     recentIpSubmissions |-> RecentIpSubmissions(ip), body |-> body,
     data |-> GameData(userId, body, ElapsedMs(body.gameId))]

\* A handler that gives the session up on every rejection.
SessionsAfterRejectAlways(outcome, gameId) == MapDelete(gameSessions, gameId)

\* What a rejected submit does to gameSessions: only the expiry check
\* deletes (line 650).
SessionsAfterReject(outcome, gameId) ==
    IF outcome.msg = "SessionExpired"
    THEN MapDelete(gameSessions, gameId)
    ELSE gameSessions

\* The handler up to "await storage.createGame(...)", in request slot h.
SubmitBegin(h, userId, ip, body) ==
    /\ handlers[h].pc = "idle"
    /\ UNCHANGED << now, userSubmissionTracker, ipGameSubmissions, games,
                    accepted, issued >>
    /\ LET outcome == SubmitOutcome(userId, ip, body) IN
       IF outcome = Proceed
       THEN /\ handlers' = [handlers EXCEPT ![h] = Closure(userId, ip, body)]
            /\ UNCHANGED << gameSessions, resp >>
       ELSE /\ resp' = outcome
            /\ gameSessions' = SessionsAfterReject(outcome, body.gameId)
            /\ UNCHANGED handlers

\* The server without the delete of line 717.
SessionsAfterAcceptKept(gameId) == gameSessions

\* gameSessions.delete(gameId) of line 717.
SessionsAfterAccept(gameId) == MapDelete(gameSessions, gameId)

\* storage.createGame resolved: the row is inserted and the handler runs on
\* from line 716.
SubmitResume(h) ==
    /\ handlers[h].pc = "await"
    /\ LET c == handlers[h] IN
       /\ games' = Append(games, c.data)
       /\ gameSessions' = SessionsAfterAccept(c.gameId)
       /\ userSubmissionTracker' = MapSet(userSubmissionTracker, c.userId, c.now)
       /\ ipGameSubmissions' =
              MapSet(ipGameSubmissions, c.ip, Append(c.recentIpSubmissions, c.now))
       /\ resp' = Response(201, "Created", 0, NoId, 0)
       /\ accepted' = Append(accepted,
              [gameId |-> c.gameId, userId |-> c.userId, ip |-> c.ip,
               now |-> c.now, elapsedMs |-> c.elapsedMs, body |-> c.body])
    /\ handlers' = [handlers EXCEPT ![h] = IdleHandler]
    /\ UNCHANGED << now, issued >>

\* A catch block that gives the session up.
SubmitFailConsuming(h) ==
    /\ handlers[h].pc = "await"
    /\ resp' = Reject(500, "StorageFailure")
    /\ gameSessions' = MapDelete(gameSessions, handlers[h].gameId)
    /\ handlers' = [handlers EXCEPT ![h] = IdleHandler]
    /\ UNCHANGED << now, userSubmissionTracker, ipGameSubmissions, games,
                    accepted, issued >>

\* A catch block that records the attempt against the user's cooldown.
SubmitFailRecording(h) ==
    /\ handlers[h].pc = "await"
    /\ resp' = Reject(500, "StorageFailure")
    /\ userSubmissionTracker' =
           MapSet(userSubmissionTracker, handlers[h].userId, handlers[h].now)
    /\ handlers' = [handlers EXCEPT ![h] = IdleHandler]
    /\ UNCHANGED << now, gameSessions, ipGameSubmissions, games, accepted,
                    issued >>

\* storage.createGame rejected: the catch block answers 500.
SubmitFail(h) ==
    /\ handlers[h].pc = "await"
    /\ resp' = Reject(500, "StorageFailure")
    /\ handlers' = [handlers EXCEPT ![h] = IdleHandler]
    /\ UNCHANGED << now, gameSessions, userSubmissionTracker, ipGameSubmissions,
                    games, accepted, issued >>

\* --------------------------------------------------------- periodic sweep
\* The setInterval callback of lines 488-506.
\* A sweep that also removes a session at exactly SESSION_EXPIRY_MS.
SweptOutInclusive(session, t) == t - session.startedAt >= SESSION_EXPIRY_MS

\* The test of line 491.
SweptOut(session, t) == t - session.startedAt > SESSION_EXPIRY_MS

\* A sweep that never removes a session.
SweepSessionsNever(sessions, t) == sessions

\* The loop of lines 490-494 run at time t.
SweepSessions(sessions, t) ==
    [g \in {x \in DOMAIN sessions : ~SweptOut(sessions[x], t)} |-> sessions[g]]

\* The loop of lines 498-505 run at time t.
SweepIps(lists, t) ==
    [ip \in {x \in DOMAIN lists : Len(Filter(lists[x], t - ONE_HOUR_MS)) # 0}
       |-> Filter(lists[ip], t - ONE_HOUR_MS)]

Sweep ==
    /\ gameSessions' = SweepSessions(gameSessions, now)
    /\ ipGameSubmissions' = SweepIps(ipGameSubmissions, now)
    /\ UNCHANGED << now, userSubmissionTracker, handlers, games, resp,
                    accepted, issued >>

\* ------------------------------------------------------------ rate limiter
\* rateLimitMap is a JavaScript Map: its entries, in insertion order.
RateKeys(map) == {map[i].key : i \in DOMAIN map}
RateIndex(map, key) == CHOOSE i \in DOMAIN map : map[i].key = key
RateEntry(key, count, resetTime) ==
    [key |-> key, count |-> count, resetTime |-> resetTime]

\* The key's record in a map that has one.
RecordOf(map, key) == map[RateIndex(map, key)]

\* rateLimitMap.set(key, value): an existing key keeps its place.
RateSet(map, key, count, resetTime) ==
    IF key \in RateKeys(map)
    THEN [map EXCEPT ![RateIndex(map, key)] = RateEntry(key, count, resetTime)]
    ELSE Append(map, RateEntry(key, count, resetTime))

\* force || now - lastCleanup > CLEANUP_INTERVAL || size > MAX_MAP_SIZE, with
\* force false as rateLimitMiddleware calls it.
ShouldCleanup ==
    \/ now - lastCleanup > CLEANUP_INTERVAL
    \/ Len(rateLimitMap) > MAX_MAP_SIZE

\* The forEach of lines 517-522.
DropExpired(map) ==
    LET unexpired(e) == ~(e.resetTime < now) IN SelectSeq(map, unexpired)

\* An eviction that drops the entries inserted last.
EvictNewest(map) ==
    IF Len(map) > MAX_MAP_SIZE THEN SubSeq(map, 1, MAX_MAP_SIZE) ELSE map

\* Lines 525-533: sort by resetTime (Array.prototype.sort is stable, so
\* entries with equal resetTime stay in insertion order), take the first
\* size - MAX_MAP_SIZE entries and delete their keys.  The last entry taken
\* has resetTime cut: everything below cut goes, and of the entries at cut
\* the first ones in insertion order.
EvictOldest(map) ==
    IF Len(map) > MAX_MAP_SIZE
    THEN LET toDelete == Len(map) - MAX_MAP_SIZE
             Below(t) == {i \in DOMAIN map : map[i].resetTime < t}
             At(t) == {i \in DOMAIN map : map[i].resetTime = t}
             cut == CHOOSE t \in {map[i].resetTime : i \in DOMAIN map} :
                       /\ Cardinality(Below(t)) < toDelete
                       /\ Cardinality(Below(t)) + Cardinality(At(t)) >= toDelete
             atCut(e) == e.resetTime = cut
             ties == SelectSeq(map, atCut)
             gone == {map[i].key : i \in Below(cut)}
                        \cup {ties[i].key :
                                 i \in 1..(toDelete - Cardinality(Below(cut)))}
             kept(e) == e.key \notin gone
         IN  SelectSeq(map, kept)
    ELSE map

\* rateLimitMap as cleanupExpiredEntries() leaves it for the lookup.
CleanedMap ==
    IF ShouldCleanup THEN EvictOldest(DropExpired(rateLimitMap))
    ELSE rateLimitMap

\* The window test answering one millisecond late.
WindowOverLate(record) == record.resetTime + 1 < now

\* record.resetTime < now
WindowOver(record) == record.resetTime < now

\* The cap compared with > instead of >=.
RateExceededStrict(record) == record.count > RATE_LIMIT_MAX

\* record.count >= RATE_LIMIT_MAX
RateExceeded(record) == record.count >= RATE_LIMIT_MAX

\* !record || record.resetTime < now
NewWindow(map, key) ==
    IF key \notin RateKeys(map) THEN TRUE
    ELSE WindowOver(map[RateIndex(map, key)])

\* next() was called: the request goes on to its route.
Passed == Response(0, "Next", 0, NoId, 0)

\* What the middleware answers, and the map it leaves.
RateOutcome(key) ==
    IF NewWindow(CleanedMap, key) THEN Passed
    ELSE IF RateExceeded(CleanedMap[RateIndex(CleanedMap, key)])
         THEN Reject(429, "RateLimited")
    ELSE Passed
RateAfter(key) ==
    LET map == CleanedMap IN
    IF NewWindow(map, key)
    THEN RateSet(map, key, 1, now + RATE_LIMIT_WINDOW)
    ELSE IF RateExceeded(map[RateIndex(map, key)]) THEN map
    ELSE [map EXCEPT ![RateIndex(map, key)].count = @ + 1]

\* rateLimitMiddleware for a request with req.ip = key.
RateLimit(key) ==
    /\ lastCleanup' = IF ShouldCleanup THEN now ELSE lastCleanup
    /\ rateLimitMap' = RateAfter(key)
    /\ resp' = RateOutcome(key)
    /\ UNCHANGED << now, gameSessions, userSubmissionTracker,
                    ipGameSubmissions, handlers, games, accepted, issued >>

\* ------------------------------------------------------------------- clock
\* Time passes; no response has been sent at the new instant yet.
Tick(t) ==
    /\ t > now
    /\ now' = t
    /\ resp' = NoResponse
    /\ UNCHANGED << gameSessions, userSubmissionTracker, ipGameSubmissions,
                    handlers, games, accepted, issued >>

\* ------------------------------------------------------------ environment
\* What the clients send and when; the handlers above are unaffected.

\* The instant at which start requests arrive.
StartTimes == {T0}

\* The address start requests come from; submits come from any address.
StartIps == {"ip1"}

\* The random parts this user's ids of the current millisecond carry.
RandsDrawn(userId) ==
    {r \in Rands : GameId(userId, now, r) \in DOMAIN gameSessions}

\* Random values are interchangeable: a start draws one of those already
\* drawn for this user in this millisecond (the ids collide) or the first
\* one not drawn yet.
RandChoices(userId) ==
    {r \in Rands : r <= Cardinality(RandsDrawn(userId)) + 1}

\* A start request is sent while ids are left to hand out; one that the cap
\* refuses hands out none.
StartAllowed(userId, rand, maxStarts) ==
    /\ now \in StartTimes
    /\ \/ TooManyActiveSessions(userId)
       \/ Cardinality(issued \cup {GameId(userId, now, rand)}) <= maxStarts

\* The userId field the clients put in the body: both users name "u2".
ClaimedUser == "u2"

AllFields(gameId, score, matchesFound, timeRemaining, bonusPts, total) ==
    [gameId |-> gameId, userId |-> ClaimedUser, present |-> FieldNames,
     score |-> score,
     matchesFound |-> matchesFound, timeRemaining |-> timeRemaining,
     bonus |-> bonusPts, totalPoints |-> total]

\* A tampered but well-typed payload, and one with a required field absent.
CheatBody(gameId) == AllFields(gameId, 999999, 2, 90, 99990, 999999)
InvalidBody(gameId) ==
    [CheatBody(gameId) EXCEPT !.present = FieldNames \ {"score"}]

Payloads(gameId) == {CheatBody(gameId), InvalidBody(gameId)}

\* Every request body a client could send: any id a start has handed out (an
\* id that is no longer in gameSessions stands for every unknown id), or none.
AllBodies == UNION {Payloads(g) : g \in issued \cup {NoId}}

\* The sessions one user started in the same millisecond are interchangeable:
\* of each user's ids, the first.
First(ids) == {g \in ids : \A k \in ids : k[1] = g[1] => g[3] <= k[3]}

\* The ids the clients do send: per user the first session still in the
\* store and the first one no longer there, or none.
SubmitIds ==
    First(DOMAIN gameSessions) \cup First(issued \ DOMAIN gameSessions)
        \cup {NoId}

Bodies == UNION {Payloads(g) : g \in SubmitIds}

\* Request slots are interchangeable: a new request takes the first idle one.
FreeSlot == {h \in Idle : \A k \in Idle : h <= k}

\* A submit that passes every check is sent only while the budget of
\* accepted submissions lasts; one that is rejected can always be sent.
Admit(userId, ip, body, maxGames) ==
    SubmitOutcome(userId, ip, body) = Proceed
        => Len(games) + Cardinality(Awaiting) < maxGames

\* Elapsed times and cooldown ages at which a check changes its answer.
ElapsedMarks ==
    {MIN_GAME_DURATION_SECONDS * 1000 - 1, MIN_GAME_DURATION_SECONDS * 1000,
     SESSION_EXPIRY_MS, SESSION_EXPIRY_MS + 1}
CooldownMarks == {USER_SUBMISSION_COOLDOWN_MS - 1, USER_SUBMISSION_COOLDOWN_MS}

\* The instants the clock is observed at: those at which some session or
\* some cooldown reaches one of the marks, up to the horizon.
Instants(elapsedMarks) ==
    {t \in {gameSessions[g].startedAt + d :
                g \in DOMAIN gameSessions, d \in elapsedMarks}
           \cup {userSubmissionTracker[u] + d :
                   u \in DOMAIN userSubmissionTracker, d \in CooldownMarks} :
        t <= T0 + Horizon}

\* -------------------------------------------------------- specifications
\* The protocol: both users, both addresses.
\* The rate limiter runs in front of the handlers and shares no state with
\* them; it is followed on its own (RateSpec below).
Next ==
    \/ \E u \in Users, ip \in StartIps : \E r \in RandChoices(u) :
          /\ StartAllowed(u, r, MaxStarts) /\ Start(u, ip, r)
          /\ UNCHANGED limiterVars
    \/ \E h \in FreeSlot, u \in Users, ip \in IPs, body \in Bodies :
          /\ Admit(u, ip, body, MaxGames) /\ SubmitBegin(h, u, ip, body)
          /\ UNCHANGED limiterVars
    \/ \E h \in Handlers : SubmitResume(h) /\ UNCHANGED limiterVars
    \/ \E h \in Handlers : SubmitFail(h) /\ UNCHANGED limiterVars
    \/ Sweep /\ UNCHANGED limiterVars
    \/ \E t \in Instants(ElapsedMarks) : Tick(t) /\ UNCHANGED limiterVars

Spec == Init /\ [][Next]_vars

\* Two handlers of one user racing on one session, from a fresh address.
RaceNext ==
    \/ \E r \in RandChoices("u1") :
          /\ StartAllowed("u1", r, RaceStarts) /\ Start("u1", "ip1", r)
          /\ UNCHANGED limiterVars
    \/ \E h \in FreeSlot, g \in issued :
          /\ Admit("u1", "ip2", CheatBody(g), RaceGames)
          /\ SubmitBegin(h, "u1", "ip2", CheatBody(g))
          /\ UNCHANGED limiterVars
    \/ \E h \in Handlers : SubmitResume(h) /\ UNCHANGED limiterVars
    \/ \E h \in Handlers : SubmitFail(h) /\ UNCHANGED limiterVars
    \/ \E t \in Instants(ElapsedMarks) : Tick(t) /\ UNCHANGED limiterVars

RaceSpec == Init /\ [][RaceNext]_vars

\* The sanitization: one session, submitted once, at many elapsed times and
\* with many payloads.
ScoreInputs == {-5, 0, 150, 200, 800, 801, 999999}
MatchesInputs == {-1, 0, 2, 8, 9}
TimeInputs == {-3, 0, 45, 70, 90, 91}
SanBodies(gameId) ==
    {AllFields(gameId, sc, m, tr, b, b) :
        sc \in ScoreInputs, m \in MatchesInputs, tr \in TimeInputs, b \in {0, 99990}}

SanElapsedMarks ==
    {MIN_GAME_DURATION_SECONDS * 1000 - 1, MIN_GAME_DURATION_SECONDS * 1000,
     15499, 15500, 20000, 89499, 89500, 90000, 90499, 90500, 91000, 120000,
     SESSION_EXPIRY_MS, SESSION_EXPIRY_MS + 1}

SanNext ==
    \/ /\ issued = {} /\ now \in StartTimes /\ Start("u1", "ip1", 1)
       /\ UNCHANGED limiterVars
    \/ \E h \in FreeSlot, g \in issued : \E body \in SanBodies(g) :
          /\ Awaiting = {} /\ games = << >>
          /\ SubmitBegin(h, "u1", "ip2", body)
          /\ UNCHANGED limiterVars
    \/ \E h \in Handlers : SubmitResume(h) /\ UNCHANGED limiterVars
    \/ /\ Awaiting = {} /\ \E t \in Instants(SanElapsedMarks) : Tick(t)
       /\ UNCHANGED limiterVars

SanSpec == Init /\ [][SanNext]_vars

\* The rate limiter on its own.  "ip1" sends at will; "ip2" sends one request
\* per window.
RateTraffic(key) == key = "ip2" => NewWindow(rateLimitMap, key)

\* The instants around the end of a window and around the next periodic
\* cleanup.
RateInstants ==
    {t \in {rateLimitMap[i].resetTime + d :
                i \in DOMAIN rateLimitMap, d \in {-1, 0, 1}}
           \cup {lastCleanup + CLEANUP_INTERVAL + d : d \in {0, 1}} :
        t <= T0 + RateHorizon}

RateNext ==
    \/ \E key \in IPs : RateTraffic(key) /\ RateLimit(key)
    \/ \E t \in RateInstants : Tick(t) /\ UNCHANGED limiterVars

RateInit ==
    /\ now = T0
    /\ gameSessions = EmptyMap
    /\ userSubmissionTracker = EmptyMap
    /\ ipGameSubmissions = EmptyMap
    /\ handlers = [h \in Handlers |-> IdleHandler]
    /\ games = << >>
    /\ resp = NoResponse
    /\ accepted = << >>
    /\ issued = {}
    /\ rateLimitMap = << >>
    /\ lastCleanup = T0 - RateUptime

RateSpec == RateInit /\ [][RateNext]_vars

\* Starts at any instant and from any address, the sweep in between.
LateNext ==
    \/ \E u \in Users, ip \in IPs : \E r \in RandChoices(u) :
          /\ \/ TooManyActiveSessions(u)
             \/ Cardinality(issued \cup {GameId(u, now, r)}) <= LateStarts
          /\ Start(u, ip, r)
          /\ UNCHANGED limiterVars
    \/ Sweep /\ UNCHANGED limiterVars
    \/ \E t \in Instants(ElapsedMarks) : Tick(t) /\ UNCHANGED limiterVars

LateSpec == Init /\ [][LateNext]_vars

\* The rate limiter with rateLimitMap at MAX_MAP_SIZE entries: "ip1" came
\* first and has used up its window, MAX_MAP_SIZE - 1 other addresses sent
\* one request each in two successive milliseconds.
Crowd ==
    [i \in 1..(MAX_MAP_SIZE - 1) |->
        RateEntry(ToString(i), 1, T0 + RATE_LIMIT_WINDOW - CrowdAge + (i % 2))]
FirstWindowEnd == T0 + RATE_LIMIT_WINDOW - FullAge
FullMap == << RateEntry("ip1", RATE_LIMIT_MAX, FirstWindowEnd) >> \o Crowd

FullInit ==
    /\ now = T0
    /\ gameSessions = EmptyMap
    /\ userSubmissionTracker = EmptyMap
    /\ ipGameSubmissions = EmptyMap
    /\ handlers = [h \in Handlers |-> IdleHandler]
    /\ games = << >>
    /\ resp = NoResponse
    /\ accepted = << >>
    /\ issued = {}
    /\ rateLimitMap = FullMap
    /\ lastCleanup = T0 - RateUptime

\* An address sends while it has no record, while its record shows fewer
\* than FullBurst requests, and when its record is at the cap; the clock is
\* followed until the first window of "ip1" has ended.
FullTraffic(key) ==
    key \in RateKeys(rateLimitMap) =>
       \/ RecordOf(rateLimitMap, key).count < FullBurst
       \/ RecordOf(rateLimitMap, key).count = RATE_LIMIT_MAX
FullInstants ==
    {FirstWindowEnd + d : d \in {-1, 0, 1}}
        \cup {t \in RateInstants : t <= FirstWindowEnd + 1}

FullNext ==
    \/ \E key \in IPs : FullTraffic(key) /\ RateLimit(key)
    \/ \E t \in FullInstants : Tick(t) /\ UNCHANGED limiterVars

FullSpec == FullInit /\ [][FullNext]_vars

\* Submits of different sessions overlapping at storage.createGame, all
\* from address "ip2", each by the session's owner, with the sweep in
\* between.
CoNext ==
    \/ \E u \in Users, ip \in StartIps : \E r \in RandChoices(u) :
          /\ StartAllowed(u, r, CoStarts) /\ Start(u, ip, r)
          /\ UNCHANGED limiterVars
    \/ \E h \in FreeSlot, g \in DOMAIN gameSessions :
          /\ \A k \in Awaiting : handlers[k].gameId # g
          /\ Admit(g[1], "ip2", CheatBody(g), CoGames)
          /\ SubmitBegin(h, g[1], "ip2", CheatBody(g))
          /\ UNCHANGED limiterVars
    \/ \E h \in Handlers : SubmitResume(h) /\ UNCHANGED limiterVars
    \/ \E h \in Handlers : SubmitFail(h) /\ UNCHANGED limiterVars
    \/ Sweep /\ UNCHANGED limiterVars
    \/ \E t \in Instants(ElapsedMarks) : Tick(t) /\ UNCHANGED limiterVars

CoSpec == Init /\ [][CoNext]_vars

\* Two waves of starts, the second when the sessions of the first have just
\* expired; each user submits their first session in between, one result at
\* most being stored; the clock keeps advancing and the sweep keeps firing.
LiveStartTimes == {T0, T0 + SESSION_EXPIRY_MS + 1}

LiveStart ==
    \E u \in Users : \E r \in RandChoices(u) :
       /\ now \in LiveStartTimes
       /\ \/ TooManyActiveSessions(u)
          \/ Cardinality(issued \cup {GameId(u, now, r)}) <= LiveStarts
       /\ Start(u, "ip2", r)
       /\ UNCHANGED limiterVars
LiveSubmit ==
    \E h \in FreeSlot, g \in First(DOMAIN gameSessions) :
       /\ SubmitOutcome(g[1], "ip2", CheatBody(g)) = Proceed =>
              games = << >> /\ Awaiting = {}
       /\ SubmitBegin(h, g[1], "ip2", CheatBody(g))
       /\ UNCHANGED limiterVars
\* storage.createGame settles, one way or the other.
LiveSettle ==
    \/ \E h \in Handlers : SubmitResume(h) /\ UNCHANGED limiterVars
    \/ \E h \in Handlers : SubmitFail(h) /\ UNCHANGED limiterVars
LiveSweep == Sweep /\ UNCHANGED limiterVars
\* The next instant at which a session or a cooldown reaches a mark or a
\* wave of starts arrives.
LiveInstants ==
    {gameSessions[g].startedAt + d : g \in DOMAIN gameSessions, d \in ElapsedMarks}
        \cup {userSubmissionTracker[u] + d :
                 u \in DOMAIN userSubmissionTracker, d \in CooldownMarks}
        \cup LiveStartTimes
LiveTick ==
    \E t \in LiveInstants :
       /\ t > now
       /\ \A x \in LiveInstants : x > now => t <= x
       /\ Tick(t) /\ UNCHANGED limiterVars

LiveNext == LiveStart \/ LiveSubmit \/ LiveSettle \/ LiveSweep \/ LiveTick

\* The timer of line 506 keeps firing and time keeps passing.
LiveSpec ==
    Init /\ [][LiveNext]_vars /\ WF_vars(LiveSweep) /\ WF_vars(LiveTick)

\* Handlers running one after another: no request is handled while a submit
\* is suspended at storage.createGame.  Address "ip1" is at its quota with
\* its oldest submission leaving the trailing hour when the sessions started
\* at T0 reach SESSION_EXPIRY_MS.
AgedPreloadedIp ==
    [i \in 1..MAX_GAMES_PER_IP_PER_HOUR |->
        IF i = 1 THEN T0 + SESSION_EXPIRY_MS - ONE_HOUR_MS ELSE PreloadedIp[i]]

SeqInit ==
    /\ now = T0
    /\ gameSessions = EmptyMap
    /\ userSubmissionTracker = EmptyMap
    /\ ipGameSubmissions = [x \in {"ip1"} |-> AgedPreloadedIp]
    /\ handlers = [h \in Handlers |-> IdleHandler]
    /\ games = << >>
    /\ resp = NoResponse
    /\ accepted = << >>
    /\ issued = {}
    /\ rateLimitMap = << >>
    /\ lastCleanup = T0

SeqNext ==
    \/ \E u \in Users, ip \in StartIps : \E r \in RandChoices(u) :
          /\ Awaiting = {}
          /\ StartAllowed(u, r, SeqStarts) /\ Start(u, ip, r)
          /\ UNCHANGED limiterVars
    \/ \E h \in FreeSlot, u \in Users, ip \in IPs, body \in Bodies :
          /\ Awaiting = {}
          /\ Admit(u, ip, body, SeqGames) /\ SubmitBegin(h, u, ip, body)
          /\ UNCHANGED limiterVars
    \/ \E h \in Handlers : SubmitResume(h) /\ UNCHANGED limiterVars
    \/ \E h \in Handlers : SubmitFail(h) /\ UNCHANGED limiterVars
    \/ Sweep /\ UNCHANGED limiterVars
    \/ \E t \in Instants(ElapsedMarks) : Tick(t) /\ UNCHANGED limiterVars

SeqSpec == SeqInit /\ [][SeqNext]_vars

\* ------------------------------------------------------------- properties
\* The session ids for which a submit has been answered 201.
Consumed == {accepted[i].gameId : i \in DOMAIN accepted}

\* The request carries the id of a session that is in the store and belongs
\* to the caller / to somebody else.
OwnSession(userId, body) ==
    /\ body.gameId \in DOMAIN gameSessions
    /\ gameSessions[body.gameId].userId = userId
Foreign(userId, body) ==
    /\ body.gameId \in DOMAIN gameSessions
    /\ gameSessions[body.gameId].userId # userId

\* Quota, cooldown and payload are in order.
InOrder(userId, ip, body) ==
    /\ ~IpQuotaExceeded(RecentIpSubmissions(ip))
    /\ ~CooldownActive(userId)
    /\ SchemaValid(body)

\* This step is a rejection: nothing is handed to storage.createGame and no
\* row is inserted.
PersistsNothing == UNCHANGED << games, handlers, accepted >>

OneTimeUseInv ==
    \A u \in Users, ip \in IPs, body \in AllBodies :
        body.gameId \in Consumed =>
            SubmitOutcome(u, ip, body) = Reject(400, "InvalidOrExpiredSession")
OneTimeUseStep ==
    \A body \in AllBodies : body.gameId \in Consumed =>
        \A h \in Handlers, u \in Users, ip \in IPs :
            SubmitBegin(h, u, ip, body) =>
                /\ resp' = Reject(400, "InvalidOrExpiredSession")
                /\ PersistsNothing
\* C1: once a submit for session id g has been answered 201, every submit
\* begun afterwards with the same id, by any user, from any address and with
\* any payload, is answered 400 "Invalid or expired game session", hands
\* nothing to storage.createGame and inserts no row.
OneTimeUse == []OneTimeUseInv /\ [][OneTimeUseStep]_vars

\* A resubmission of a consumed id has just been refused: the 400 was sent
\* after the 201 (which it replaced as the last response), and every id
\* missing from the store is missing because it was consumed.
OneTimeUseRefused ==
    /\ resp = Reject(400, "InvalidOrExpiredSession")
    /\ Consumed # {}
    /\ issued \ DOMAIN gameSessions \subseteq Consumed
    /\ now - T0 <= SESSION_EXPIRY_MS

\* C2: however two submit handlers racing on one session id interleave, at
\* most one GameResult is persisted for that id.
AtMostOneResultPerSession ==
    \A i, j \in DOMAIN accepted :
        accepted[i].gameId = accepted[j].gameId => i = j

SessionCapInv ==
    \A u \in Users : UserActiveSessions(u) <= MAX_ACTIVE_SESSIONS_PER_USER
SessionCapStep ==
    \A u \in Users : UserActiveSessions(u) >= MAX_ACTIVE_SESSIONS_PER_USER =>
        \A ip \in IPs, r \in Rands :
            Start(u, ip, r) =>
                /\ resp'.status = 429
                /\ resp'.msg = "TooManyActiveSessions"
                /\ gameSessions' = gameSessions
\* C3: no user ever has more than MAX_ACTIVE_SESSIONS_PER_USER (3) entries in
\* gameSessions, and a start by a user who has 3 is answered 429 and adds no
\* entry.
SessionCap == []SessionCapInv /\ [][SessionCapStep]_vars

\* A start has just been refused for a user holding three sessions.
SessionCapRefused ==
    /\ resp.msg = "TooManyActiveSessions"
    /\ \E u \in Users : UserActiveSessions(u) = MAX_ACTIVE_SESSIONS_PER_USER

OwnershipInv ==
    \A u \in Users, ip \in IPs, body \in AllBodies :
        Foreign(u, body) =>
            SubmitOutcome(u, ip, body) = Reject(403, "SessionOwnershipMismatch")
OwnershipStep ==
    \A u \in Users, body \in AllBodies : Foreign(u, body) =>
        \A h \in Handlers, ip \in IPs :
            SubmitBegin(h, u, ip, body) =>
                /\ resp' = Reject(403, "SessionOwnershipMismatch")
                /\ PersistsNothing
                /\ UNCHANGED << gameSessions, userSubmissionTracker,
                                ipGameSubmissions, now >>
\* C4: a submit naming a session that is in the store but belongs to another
\* user is answered 403 whatever the payload, the elapsed time, the IP quota
\* and the cooldown are; it persists nothing, leaves the session in the
\* store and changes nothing the owner's own submit of it depends on.
Ownership == []OwnershipInv /\ [][OwnershipStep]_vars

\* A 403 has just been sent at an instant at which the sessions in the store
\* are past expiry: the expiry check did not get to answer, and the session
\* is still there.
OwnershipRefusedPastExpiry ==
    /\ resp = Reject(403, "SessionOwnershipMismatch")
    /\ \E g \in DOMAIN gameSessions :
           now - gameSessions[g].startedAt > SESSION_EXPIRY_MS

\* What storage.createGame was handed: the rows inserted and the arguments
\* of the calls still pending.
Handed ==
    {games[i] : i \in DOMAIN games} \cup {handlers[h].data : h \in Awaiting}

\* C5: every GameResult handed to storage.createGame has
\* 0 <= matchesFound <= 8, 0 <= score <= matchesFound * 100, score <= 800 and
\* 0 <= timeRemaining <= 90, whatever integers the client reports.
ScoreClamp ==
    \A row \in Handed :
        /\ 0 <= row.matchesFound /\ row.matchesFound <= MAX_MATCHES
        /\ 0 <= row.score /\ row.score <= row.matchesFound * 100
        /\ row.score <= MAX_SCORE
        /\ 0 <= row.timeRemaining
        /\ row.timeRemaining <= GAME_DURATION_SECONDS

\* A client that reported score 999999 with no match found, and a negative
\* time, got a row with score 0 and time 0.
ScoreClampCheated ==
    \E i \in DOMAIN games :
        /\ accepted[i].body.score = 999999
        /\ accepted[i].body.matchesFound = 0
        /\ accepted[i].body.timeRemaining < 0
        /\ games[i].score = 0
        /\ games[i].timeRemaining = 0

\* C6, as stated: for every successful submit the persisted timeRemaining is
\* at most GAME_DURATION_SECONDS - floor(elapsedSeconds).
TimeClampFloor ==
    \A i \in DOMAIN games :
        games[i].timeRemaining
            <= GAME_DURATION_SECONDS - (accepted[i].elapsedMs \div 1000)

\* C6, amended: the persisted timeRemaining is at most
\* max(0, GAME_DURATION_SECONDS - floor(elapsedSeconds)); from 91 s of
\* elapsed time on the difference is negative while timeRemaining is 0.
TimeClampFloorOrZero ==
    \A i \in DOMAIN games :
        LET bound == GAME_DURATION_SECONDS - (accepted[i].elapsedMs \div 1000)
        IN  games[i].timeRemaining <= IF bound < 0 THEN 0 ELSE bound

\* A client that reported 90 s remaining after 89.499 s of play got 1 s: the
\* server's bound, not the client's value.
TimeClampDominates ==
    \E i \in DOMAIN games :
        /\ accepted[i].body.timeRemaining = GAME_DURATION_SECONDS
        /\ accepted[i].elapsedMs = 89499
        /\ games[i].timeRemaining = 1

\* The reference formula, written without the handler's helpers.
Clamp(x, lo, hi) == IF x < lo THEN lo ELSE IF x > hi THEN hi ELSE x
RoundHalfUp(ms) ==
    CHOOSE k \in 0..(ms \div 1000 + 1) :
        2 * ms >= 2000 * k - 1000 /\ 2 * ms < 2000 * k + 1000
Reference(a) ==
    LET m == Clamp(a.body.matchesFound, 0, 8)
        tr == Min(Clamp(90 - RoundHalfUp(a.elapsedMs), 0, 90),
                  Clamp(a.body.timeRemaining, 0, 90))
        sc == Clamp(Min(m * 100, a.body.score), 0, 800)
    IN  [userId |-> a.userId, score |-> sc, bonus |-> tr * 10,
         totalPoints |-> sc + tr * 10, timeRemaining |-> tr,
         matchesFound |-> m]

\* C7: the persisted record is the reference formula applied to the payload
\* and the elapsed time: matchesFound clamped to 0..8, timeRemaining the
\* smaller of clamp(90 - round(e), 0, 90) and the clamped client value,
\* score = clamp(min(matchesFound * 100, client score), 0, 800),
\* bonus = timeRemaining * 10, totalPoints = score + bonus; the client's
\* bonus and totalPoints do not reach it.
SanitizationIsReference ==
    /\ \A i \in DOMAIN games : games[i] = Reference(accepted[i])
    /\ \A h \in Awaiting :
           handlers[h].data =
               Reference([userId |-> handlers[h].userId,
                          body |-> handlers[h].body,
                          elapsedMs |-> handlers[h].elapsedMs])

\* The concrete case: {score: 999999, matchesFound: 2, timeRemaining: 90}
\* with bonus 99990 at 20 s gives 200, 70, 700, 900.
SanitizationCase ==
    \E i \in DOMAIN games :
        /\ accepted[i].elapsedMs = 20000
        /\ accepted[i].body.score = 999999
        /\ accepted[i].body.matchesFound = 2
        /\ accepted[i].body.timeRemaining = 90
        /\ accepted[i].body.bonus = 99990
        /\ games[i].score = 200 /\ games[i].timeRemaining = 70
        /\ games[i].bonus = 700 /\ games[i].totalPoints = 900
        /\ games[i].matchesFound = 2

TooFastInv ==
    \A u \in Users, ip \in IPs, body \in AllBodies : OwnSession(u, body) =>
        /\ ElapsedMs(body.gameId) < MIN_GAME_DURATION_SECONDS * 1000 =>
               SubmitOutcome(u, ip, body) = Reject(400, "TooFast")
        /\ (ElapsedMs(body.gameId) = MIN_GAME_DURATION_SECONDS * 1000
               /\ InOrder(u, ip, body)) =>
               SubmitOutcome(u, ip, body) = Proceed
TooFastStep ==
    /\ \A u \in Users, body \in AllBodies :
          (OwnSession(u, body)
              /\ ElapsedMs(body.gameId) < MIN_GAME_DURATION_SECONDS * 1000) =>
          \A h \in Handlers, ip \in IPs :
              SubmitBegin(h, u, ip, body) =>
                  /\ resp' = Reject(400, "TooFast")
                  /\ PersistsNothing
                  /\ gameSessions' = gameSessions
    /\ \A h \in Handlers :
          SubmitResume(h) =>
              /\ resp'.status = 201
              /\ games' = Append(games, handlers[h].data)
\* C8: a submit by the owner at an elapsed time strictly below 15 s is
\* answered 400 "too quickly" and persists nothing; at exactly 15 s, with
\* quota, cooldown and payload in order, it passes every check, is handed to
\* storage.createGame and, once that resolves, is answered 201 with its row
\* inserted.
TooFastBoundary == []TooFastInv /\ [][TooFastStep]_vars

\* A submit begun at exactly 15 s of elapsed time has just been answered 201.
TooFastBoundaryAccepted ==
    /\ resp.status = 201
    /\ \E i \in DOMAIN accepted :
           /\ accepted[i].elapsedMs = MIN_GAME_DURATION_SECONDS * 1000
           /\ accepted[i].now = now

ExpiryInv ==
    \A u \in Users, ip \in IPs, body \in AllBodies : OwnSession(u, body) =>
        /\ ElapsedMs(body.gameId) > SESSION_EXPIRY_MS =>
               /\ SubmitOutcome(u, ip, body) = Reject(400, "SessionExpired")
               /\ body.gameId \notin
                      DOMAIN SessionsAfterReject(SubmitOutcome(u, ip, body),
                                                 body.gameId)
        /\ (ElapsedMs(body.gameId) = SESSION_EXPIRY_MS
               /\ InOrder(u, ip, body)) =>
               SubmitOutcome(u, ip, body) = Proceed
ExpiryStep ==
    /\ \A u \in Users, body \in AllBodies :
          (OwnSession(u, body) /\ ElapsedMs(body.gameId) > SESSION_EXPIRY_MS) =>
          \A h \in Handlers, ip \in IPs :
              SubmitBegin(h, u, ip, body) =>
                  /\ resp' = Reject(400, "SessionExpired")
                  /\ PersistsNothing
                  /\ gameSessions' = MapDelete(gameSessions, body.gameId)
                  /\ \A u2 \in Users, ip2 \in IPs :
                         (SubmitOutcome(u2, ip2, body))' =
                             Reject(400, "InvalidOrExpiredSession")
    /\ \A g \in issued :
          g \notin DOMAIN gameSessions => g \notin DOMAIN gameSessions'
\* C9: a submit by the owner at an elapsed time strictly above 150 s is
\* answered 400 "Game session expired", persists nothing and deletes the
\* session; the id never comes back, so a further submit with it is answered
\* "Invalid or expired game session".  At exactly 150 s, with quota, cooldown
\* and payload in order, the submit passes every check.
ExpiryBoundary == []ExpiryInv /\ [][ExpiryStep]_vars

\* The only session ever started has just been refused as expired, one
\* millisecond past 150 s, and is gone from the store.
ExpiryRefusedAndDeleted ==
    /\ resp = Reject(400, "SessionExpired")
    /\ Cardinality(issued) = 1
    /\ gameSessions = EmptyMap
    /\ now - T0 = SESSION_EXPIRY_MS + 1

\* The instant recorded with the user's most recent 201.
AcceptedBy(userId) == {i \in DOMAIN accepted : accepted[i].userId = userId}
LastAccepted(userId) ==
    accepted[CHOOSE i \in AcceptedBy(userId) :
                 \A j \in AcceptedBy(userId) : j <= i].now

\* ceil(ms / 1000) for 0 < ms <= 5000, by its defining property.
CeilReference(ms) ==
    CHOOSE k \in 1..5 : (k - 1) * 1000 < ms /\ ms <= k * 1000

\* The request passes the session, timing and IP-quota checks.
ReachesCooldownCheck(userId, ip, body) ==
    /\ OwnSession(userId, body)
    /\ ElapsedMs(body.gameId) >= MIN_GAME_DURATION_SECONDS * 1000
    /\ ElapsedMs(body.gameId) <= SESSION_EXPIRY_MS
    /\ Len(RecentIpSubmissions(ip)) < MAX_GAMES_PER_IP_PER_HOUR

CooldownInv ==
    /\ \A u \in Users :
          /\ u \in DOMAIN userSubmissionTracker <=> AcceptedBy(u) # {}
          /\ AcceptedBy(u) # {} => userSubmissionTracker[u] = LastAccepted(u)
    /\ \A u \in Users, ip \in IPs, body \in AllBodies :
          (AcceptedBy(u) # {} /\ ReachesCooldownCheck(u, ip, body)) =>
          LET age == now - LastAccepted(u)
              outcome == SubmitOutcome(u, ip, body)
          IN  /\ age < USER_SUBMISSION_COOLDOWN_MS =>
                     /\ outcome =
                            Response(429, "SubmissionTooFrequent",
                                     CeilReference(USER_SUBMISSION_COOLDOWN_MS - age),
                                     NoId, 0)
                     /\ outcome.retryAfter \in 1..5
              /\ age >= USER_SUBMISSION_COOLDOWN_MS =>
                     outcome = IF SchemaValid(body)
                               THEN Proceed
                               ELSE Reject(400, "InvalidGameData")
CooldownStep ==
    \A u \in Users, ip \in IPs, body \in AllBodies :
        (AcceptedBy(u) # {} /\ ReachesCooldownCheck(u, ip, body)
            /\ now - LastAccepted(u) < USER_SUBMISSION_COOLDOWN_MS) =>
        \A h \in Handlers :
            SubmitBegin(h, u, ip, body) =>
                /\ resp'.status = 429
                /\ PersistsNothing
                /\ gameSessions' = gameSessions
\* C10: if user u's last accepted submission was recorded at time t, a submit
\* by u at now with now - t < 5000 ms that passes the session, timing and
\* IP-quota checks is answered 429, persists nothing and announces
\* retryAfter = ceil((5000 - (now - t)) / 1000), an integer from 1 to 5; at
\* now - t >= 5000 the cooldown check passes.
Cooldown == []CooldownInv /\ [][CooldownStep]_vars

\* 4999 ms after the user's last 201 another session of theirs has just been
\* refused with retryAfter 1.
CooldownRefused ==
    /\ resp = Response(429, "SubmissionTooFrequent", 1, NoId, 0)
    /\ \E u \in Users :
           /\ AcceptedBy(u) # {}
           /\ now - LastAccepted(u) = USER_SUBMISSION_COOLDOWN_MS - 1
           /\ \E g \in DOMAIN gameSessions : gameSessions[g].userId = u

\* Every submission accepted from an address, in the order of acceptance:
\* those on record when the observation starts and those accepted since.
AcceptedFrom(ip) ==
    LET from(a) == a.ip = ip
        stamp(list) == [i \in DOMAIN list |-> list[i].now]
    IN  (IF ip = "ip1" THEN AgedPreloadedIp ELSE << >>)
            \o stamp(SelectSeq(accepted, from))

\* How many of them fall in the hour that ends at t.
AcceptedInHourTo(ip, t) ==
    LET inHour(x) == x > t - ONE_HOUR_MS /\ x <= t
    IN  Len(SelectSeq(AcceptedFrom(ip), inHour))

\* The request passes the session and timing checks.
ReachesQuotaCheck(userId, body) ==
    /\ OwnSession(userId, body)
    /\ ElapsedMs(body.gameId) >= MIN_GAME_DURATION_SECONDS * 1000
    /\ ElapsedMs(body.gameId) <= SESSION_EXPIRY_MS

\* C11: with handlers running one after another, a submit from an address
\* with MAX_GAMES_PER_IP_PER_HOUR (100) submissions accepted in the last hour
\* persists nothing and, once past the session and timing checks, is answered
\* 429; the list the server keeps agrees with what was accepted, sweep or no
\* sweep; so no hour ending now or at an accepted submission holds more than
\* 100 accepted submissions of one address.
IpQuota ==
    \A ip \in IPs :
        /\ Filter(IpSubmissions(ip), now - ONE_HOUR_MS)
               = Filter(AcceptedFrom(ip), now - ONE_HOUR_MS)
        /\ AcceptedInHourTo(ip, now) <= MAX_GAMES_PER_IP_PER_HOUR
        /\ \A i \in DOMAIN accepted :
               accepted[i].ip = ip =>
                   AcceptedInHourTo(ip, accepted[i].now)
                       <= MAX_GAMES_PER_IP_PER_HOUR
        /\ AcceptedInHourTo(ip, now) >= MAX_GAMES_PER_IP_PER_HOUR =>
               \A u \in Users, body \in AllBodies :
                   /\ SubmitOutcome(u, ip, body) # Proceed
                   /\ ReachesQuotaCheck(u, body) =>
                          SubmitOutcome(u, ip, body)
                              = Reject(429, "IpQuotaExceeded")

\* The oldest submission of "ip1" has left the hour, one more was accepted
\* from "ip1", which is at 100 again, and the next one has just been
\* refused.
IpQuotaRefilledAndRefused ==
    /\ resp = Reject(429, "IpQuotaExceeded")
    /\ \E i \in DOMAIN accepted : accepted[i].ip = "ip1"
    /\ AcceptedInHourTo("ip1", now) = MAX_GAMES_PER_IP_PER_HOUR

\* This step inserts a row and answers 201.
Created == resp'.status = 201 /\ Len(games') = Len(games) + 1

RejectionSpendsNothingStep ==
    /\ (userSubmissionTracker' # userSubmissionTracker
           \/ ipGameSubmissions' # ipGameSubmissions) =>
          /\ \A h \in Handlers, u \in Users, ip \in IPs, body \in AllBodies :
                 ~SubmitBegin(h, u, ip, body)
          /\ \A h \in Handlers : ~SubmitFail(h)
    /\ \A h \in Handlers : SubmitFail(h) => resp'.status = 500
    /\ userSubmissionTracker' # userSubmissionTracker => Created
    /\ ipGameSubmissions' # ipGameSubmissions =>
          \/ Created
          \/ UNCHANGED << resp, handlers, games >>
\* C12: a submit that ends with anything but 201 (any rejection of the
\* validation pipeline, or a storage failure) leaves userSubmissionTracker
\* and ipGameSubmissions as they were; among the requests only a 201 changes
\* them (the sweep, which is no request, prunes ipGameSubmissions).
RejectionSpendsNothing == [][RejectionSpendsNothingStep]_vars

\* A submit that got past the quota and cooldown checks has just been
\* refused for its payload, and neither map has anything from it.
RejectedPayloadSpentNothing ==
    /\ resp = Reject(400, "InvalidGameData")
    /\ userSubmissionTracker = EmptyMap
    /\ ipGameSubmissions = [x \in {"ip1"} |-> PreloadedIp]

\* C13: a request of a key arriving after RATE_LIMIT_WINDOW has passed since
\* its window began (now > resetTime), whatever the count had reached, is let
\* through and sets the record to {count: 1, resetTime: now + WINDOW}; a
\* rejected request leaves the key's count and resetTime as they were.
RateWindowReset ==
    \A key \in IPs :
        /\ (key \in RateKeys(rateLimitMap)
               /\ now - (RecordOf(rateLimitMap, key).resetTime
                             - RATE_LIMIT_WINDOW) > RATE_LIMIT_WINDOW) =>
               /\ RateOutcome(key) = Passed
               /\ key \in RateKeys(RateAfter(key))
               /\ RecordOf(RateAfter(key), key)
                      = RateEntry(key, 1, now + RATE_LIMIT_WINDOW)
        /\ RateOutcome(key) # Passed =>
               /\ RateOutcome(key).status = 429
               /\ key \in RateKeys(rateLimitMap)
               /\ key \in RateKeys(RateAfter(key))
               /\ RecordOf(RateAfter(key), key) = RecordOf(rateLimitMap, key)

\* A key that used up its window is let through again one millisecond after
\* the window's end.
RateWindowReopens ==
    \E key \in IPs :
        /\ key \in RateKeys(rateLimitMap)
        /\ RecordOf(rateLimitMap, key).count = RATE_LIMIT_MAX
        /\ now = RecordOf(rateLimitMap, key).resetTime + 1
        /\ RateOutcome(key) = Passed
        /\ RecordOf(RateAfter(key), key).count = 1

\* C14: every stored count is between 1 and RATE_LIMIT_MAX; a request that
\* finds its key's record with now before resetTime is let through exactly
\* when count < RATE_LIMIT_MAX, which adds 1 to count, and is answered 429
\* without next() when count >= RATE_LIMIT_MAX, which changes nothing.
RateCap ==
    /\ \A i \in DOMAIN rateLimitMap :
          /\ 1 <= rateLimitMap[i].count
          /\ rateLimitMap[i].count <= RATE_LIMIT_MAX
    /\ \A key \in IPs :
          (key \in RateKeys(CleanedMap)
              /\ now < RecordOf(CleanedMap, key).resetTime) =>
          LET rec == RecordOf(CleanedMap, key) IN
          /\ rec.count < RATE_LIMIT_MAX =>
                 /\ RateOutcome(key) = Passed
                 /\ RecordOf(RateAfter(key), key)
                        = RateEntry(key, rec.count + 1, rec.resetTime)
          /\ rec.count >= RATE_LIMIT_MAX =>
                 /\ RateOutcome(key) = Reject(429, "RateLimited")
                 /\ RateAfter(key) = CleanedMap

\* The hundred-and-first request of a window has just been answered 429, one
\* millisecond before the window ends.
RateCapRefused ==
    /\ resp = Reject(429, "RateLimited")
    /\ \E key \in IPs :
           /\ key \in RateKeys(rateLimitMap)
           /\ RecordOf(rateLimitMap, key).count = RATE_LIMIT_MAX
           /\ now = RecordOf(rateLimitMap, key).resetTime - 1

\* The user's sessions that are in the store and not yet expired.
LiveSessions(userId) ==
    Cardinality({g \in DOMAIN gameSessions :
                    /\ gameSessions[g].userId = userId
                    /\ now - gameSessions[g].startedAt <= SESSION_EXPIRY_MS})

\* C15: a start is refused only to a caller with MAX_ACTIVE_SESSIONS_PER_USER
\* sessions that are in the store and not yet expired; expired sessions
\* still waiting for the sweep do not count.  (Stated on the response: a 429
\* has been sent only if some user has that many live sessions.)
StartRefusedOnlyWhenFull ==
    resp.msg = "TooManyActiveSessions" =>
        \E u \in Users : LiveSessions(u) >= MAX_ACTIVE_SESSIONS_PER_USER

StartFrameStep ==
    \A u \in Users, ip \in IPs, r \in Rands :
        Start(u, ip, r) =>
            LET id == GameId(u, now, r) IN
            IF resp'.status = 200
            THEN /\ resp' = Response(200, "Started", 0, id,
                                     now + SESSION_EXPIRY_MS)
                 /\ id \notin DOMAIN gameSessions =>
                        /\ DOMAIN gameSessions' = DOMAIN gameSessions \cup {id}
                        /\ Cardinality(DOMAIN gameSessions')
                               = Cardinality(DOMAIN gameSessions) + 1
                 /\ gameSessions'[id] =
                        [gameId |-> id, userId |-> u, startedAt |-> now,
                         ip |-> ip]
                 /\ \A g \in DOMAIN gameSessions \ {id} :
                        /\ g \in DOMAIN gameSessions'
                        /\ gameSessions'[g] = gameSessions[g]
                 /\ UNCHANGED << userSubmissionTracker, ipGameSubmissions,
                                 games, handlers >>
            ELSE /\ resp'.status = 429
                 /\ UNCHANGED << gameSessions, userSubmissionTracker,
                                 ipGameSubmissions, games, handlers >>
Stale == {g \in DOMAIN gameSessions :
             now - gameSessions[g].startedAt > SESSION_EXPIRY_MS}
StaleIps ==
    {ip \in DOMAIN ipGameSubmissions :
        \/ ipGameSubmissions[ip] = << >>
        \/ \E i \in DOMAIN ipGameSubmissions[ip] :
              ipGameSubmissions[ip][i] <= now - ONE_HOUR_MS}

\* C17: one run of the sweep at time now removes exactly the sessions with
\* now - startedAt > SESSION_EXPIRY_MS and keeps every other session as it
\* was, so every session a submit would still accept survives it; the store
\* it leaves has nothing left to remove, and a sweep of a store with nothing
\* to remove (an empty one included) changes nothing at all.
SweepExactStep ==
    Sweep =>
       /\ DOMAIN gameSessions' = DOMAIN gameSessions \ Stale
       /\ \A g \in DOMAIN gameSessions' : gameSessions'[g] = gameSessions[g]
       /\ \A u \in Users, ip \in IPs, body \in AllBodies :
              SubmitOutcome(u, ip, body) = Proceed =>
                 body.gameId \in DOMAIN gameSessions'
       /\ Stale' = {}
       /\ StaleIps' = {}
       /\ (Stale = {} /\ StaleIps = {}) => UNCHANGED vars
       /\ gameSessions = EmptyMap => gameSessions' = EmptyMap

SweepExact == [][SweepExactStep]_vars

\* A sweep has removed the sessions past their expiry and kept a younger
\* one.
SweptSomeKeptOthers ==
    /\ \E g \in issued \ DOMAIN gameSessions : now - g[2] > SESSION_EXPIRY_MS
    /\ gameSessions # EmptyMap
    /\ Stale = {}

\* C18: when storage.createGame fails in a submit that passed every check,
\* the answer is 500, the session stays in gameSessions, no row is stored
\* and neither the user's cooldown stamp nor the address's submission list
\* changes, so the same request sent again gets the answer it would have got
\* without the failure (it is accepted while the session is there and within
\* its expiry window).
StorageFailureStep ==
    \A h \in Handlers :
        SubmitFail(h) =>
           LET c == handlers[h] IN
           /\ resp'.status = 500
           /\ UNCHANGED << gameSessions, userSubmissionTracker,
                           ipGameSubmissions, games, accepted >>
           /\ c.gameId \in DOMAIN gameSessions => c.gameId \in DOMAIN gameSessions'
           /\ \A u \in Users, ip \in IPs, body \in AllBodies :
                  (u = c.userId /\ ip = c.ip /\ body = c.body) =>
                     (SubmitOutcome(u, ip, body))' = SubmitOutcome(u, ip, body)

StorageFailure == [][StorageFailureStep]_vars

\* A submit has just failed in storage, and the same request would pass
\* every check again.
StorageFailedRetryOpen ==
    /\ resp = Reject(500, "StorageFailure")
    /\ games = << >>
    /\ userSubmissionTracker = EmptyMap
    /\ \E u \in Users, body \in AllBodies :
           /\ OwnSession(u, body)
           /\ SubmitOutcome(u, "ip2", body) = Proceed

\* C19: a submit that is rejected for anything but expiry (missing id,
\* unknown id, ownership mismatch, too fast, IP quota, cooldown, invalid
\* payload) leaves gameSessions as it was; a session rejected as too fast
\* is still there for a later submit.
RejectedKeepsSessionStep ==
    gameSessions' # gameSessions =>
       \A h \in Handlers, u \in Users, ip \in IPs, body \in AllBodies :
           SubmitBegin(h, u, ip, body) =>
              /\ SubmitOutcome(u, ip, body).msg = "SessionExpired"
              /\ gameSessions' = MapDelete(gameSessions, body.gameId)

RejectedKeepsSession == [][RejectedKeepsSessionStep]_vars

\* A session was refused as too fast and is still in the store.
TooFastStillActive ==
    /\ resp = Reject(400, "TooFast")
    /\ Cardinality(issued) = 1
    /\ issued \subseteq DOMAIN gameSessions

\* The checks of the pipeline in their documented order, each taken on its
\* own: whether the request fails it in the current state.
Known(body) == body.gameId \in DOMAIN gameSessions
Age(body) == now - gameSessions[body.gameId].startedAt
StampsInHour(ip) ==
    IF ip \in DOMAIN ipGameSubmissions
    THEN Cardinality({i \in DOMAIN ipGameSubmissions[ip] :
                        ipGameSubmissions[ip][i] > now - ONE_HOUR_MS})
    ELSE 0
Fails(userId, ip, body, i) ==
    CASE i = 1 -> body.gameId = NoId
      [] i = 2 -> ~Known(body)
      [] i = 3 -> IF Known(body)
                  THEN gameSessions[body.gameId].userId # userId ELSE FALSE
      [] i = 4 -> IF Known(body)
                  THEN Age(body) < MIN_GAME_DURATION_SECONDS * 1000 ELSE FALSE
      [] i = 5 -> IF Known(body) THEN Age(body) > SESSION_EXPIRY_MS ELSE FALSE
      [] i = 6 -> StampsInHour(ip) >= MAX_GAMES_PER_IP_PER_HOUR
      [] i = 7 -> IF userId \in DOMAIN userSubmissionTracker
                  THEN now - userSubmissionTracker[userId]
                          < USER_SUBMISSION_COOLDOWN_MS
                  ELSE FALSE
      [] i = 8 -> body.present # FieldNames

\* The status and the message each check answers with.
Answers ==
    << << 400, "MissingSession" >>, << 400, "InvalidOrExpiredSession" >>,
       << 403, "SessionOwnershipMismatch" >>, << 400, "TooFast" >>,
       << 400, "SessionExpired" >>, << 429, "IpQuotaExceeded" >>,
       << 429, "SubmissionTooFrequent" >>, << 400, "InvalidGameData" >> >>

Failing(userId, ip, body) ==
    {i \in DOMAIN Answers : Fails(userId, ip, body, i)}

\* C20: the pipeline answers with the first check that fails, in the order
\* missing id, unknown session, ownership, too fast, expired, IP quota,
\* cooldown, payload schema; a request failing several checks gets the
\* answer of the earliest, and one failing none goes on to storage.
FirstFailureWins ==
    \A u \in Users, ip \in IPs, body \in AllBodies :
        LET failing == Failing(u, ip, body)
            outcome == SubmitOutcome(u, ip, body)
        IN  IF failing = {} THEN outcome = Proceed
            ELSE \E i \in failing :
                    /\ \A j \in failing : i <= j
                    /\ << outcome.status, outcome.msg >> = Answers[i]

\* A request that fails the IP quota, the cooldown and the schema at once
\* has been answered with the IP-quota 429.
QuotaAnsweredBeforeCooldown ==
    /\ resp = Reject(429, "IpQuotaExceeded")
    /\ \E u \in Users, body \in AllBodies :
           {6, 7, 8} \subseteq Failing(u, "ip1", body)
              /\ \A i \in Failing(u, "ip1", body) : 6 <= i

\* C21: a request of a key arriving at exactly now = resetTime of the key's
\* record starts a new window: it is let through and the record becomes
\* {count: 1, resetTime: now + RATE_LIMIT_WINDOW}, even when the old count
\* had reached RATE_LIMIT_MAX.
RateBoundaryOpens ==
    \A key \in IPs :
        (key \in RateKeys(rateLimitMap)
            /\ now = RecordOf(rateLimitMap, key).resetTime) =>
           /\ RateOutcome(key) = Passed
           /\ key \in RateKeys(RateAfter(key))
           /\ RecordOf(RateAfter(key), key)
                  = RateEntry(key, 1, now + RATE_LIMIT_WINDOW)

\* The sessions in the store that were started at time t.
StartedAt(t) == {g \in DOMAIN gameSessions : gameSessions[g].startedAt = t}

\* C22: while the clock advances and the sweep keeps firing, every session
\* in gameSessions is eventually removed from it (consumed, deleted by an
\* expired submit, or swept): whenever sessions started at some time are in
\* the store, a moment comes at which none of them is.  A user at the cap of
\* active sessions is eventually below it again, whether or not anything is
\* submitted.
SessionsLeave ==
    /\ \A t \in LiveStartTimes : (StartedAt(t) # {}) ~> (StartedAt(t) = {})
    /\ \A u \in Users :
          TooManyActiveSessions(u) ~> ~TooManyActiveSessions(u)

\* A user who had reached the cap has started again after the sweep, with
\* no session consumed.
StartedAgainAfterSweep ==
    /\ accepted = << >>
    /\ handlers = [h \in Handlers |-> IdleHandler]
    /\ resp.status = 200
    /\ \E u \in Users :
           /\ Cardinality({g \in issued : g[1] = u})
                  > MAX_ACTIVE_SESSIONS_PER_USER
           /\ \E g \in DOMAIN gameSessions :
                  g[1] = u /\ gameSessions[g].startedAt = now

\* C23: however the submit handlers of one user that use different valid
\* sessions interleave, no two of that user's submissions whose handlers
\* read the clock less than USER_SUBMISSION_COOLDOWN_MS apart are both
\* accepted.
CooldownUnderInterleaving ==
    \A i, j \in DOMAIN accepted :
        (/\ i < j
         /\ accepted[i].userId = accepted[j].userId
         /\ accepted[i].gameId # accepted[j].gameId) =>
           \/ accepted[j].now - accepted[i].now >= USER_SUBMISSION_COOLDOWN_MS
           \/ accepted[i].now - accepted[j].now >= USER_SUBMISSION_COOLDOWN_MS

\* The submissions accepted from an address in the hour ending now, and the
\* stamps of that hour the address's list holds for submissions made since
\* the observation began.
AcceptedThisHour(ip) ==
    {i \in DOMAIN accepted :
        accepted[i].ip = ip /\ accepted[i].now > now - ONE_HOUR_MS}
StampsThisHour(ip) ==
    {i \in DOMAIN IpSubmissions(ip) :
        /\ IpSubmissions(ip)[i] >= T0
        /\ IpSubmissions(ip)[i] > now - ONE_HOUR_MS}

\* C24: however the submit handlers of one address and the sweep
\* interleave, once every handler has finished the address's list holds one
\* stamp for each submission accepted from it within the last hour, so the
\* count compared with MAX_GAMES_PER_IP_PER_HOUR is never lower than the
\* number of submissions accepted in the trailing hour.
NoLostIpUpdate ==
    Awaiting = {} =>
       \A ip \in IPs :
           Cardinality(StampsThisHour(ip)) = Cardinality(AcceptedThisHour(ip))

\* C25: the id a successful start generates is not the id of a session in
\* gameSessions and not an id issued earlier, so a start never overwrites a
\* session and a consumed or expired id never comes back.
FreshIdsStep ==
    \A u \in Users, ip \in IPs, r \in Rands :
        (Start(u, ip, r) /\ resp'.status = 200) =>
           /\ GameId(u, now, r) \notin DOMAIN gameSessions
           /\ GameId(u, now, r) \notin issued
           /\ \A g \in DOMAIN gameSessions : gameSessions'[g] = gameSessions[g]

FreshIds == [][FreshIdsStep]_vars

\* C28: every persisted GameResult carries the userId of the authenticated
\* caller of the submit, who is the user that started the session submitted,
\* a session that was in gameSessions and between MIN_GAME_DURATION_SECONDS
\* and SESSION_EXPIRY_MS old when the submit was checked; the userId field
\* of the request body decides nothing.
CreditedToOwner ==
    /\ \A g \in DOMAIN gameSessions :
          gameSessions[g].userId = g[1] /\ gameSessions[g].startedAt = g[2]
    /\ Len(games) = Len(accepted)
    /\ \A i \in DOMAIN games :
          /\ games[i].userId = accepted[i].userId
          /\ accepted[i].gameId \in issued
          /\ accepted[i].gameId[1] = accepted[i].userId
          /\ accepted[i].elapsedMs = accepted[i].now - accepted[i].gameId[2]
          /\ accepted[i].elapsedMs >= MIN_GAME_DURATION_SECONDS * 1000
          /\ accepted[i].elapsedMs <= SESSION_EXPIRY_MS
    /\ \A h \in Awaiting :
          /\ handlers[h].data.userId = handlers[h].userId
          /\ handlers[h].gameId[1] = handlers[h].userId

\* A submit whose body named another user was stored under the caller's id.
ForgedUserIdIgnored ==
    \E i \in DOMAIN games :
        /\ accepted[i].body.userId # accepted[i].userId
        /\ games[i].userId = accepted[i].userId
        /\ ParseInput(accepted[i].userId, accepted[i].body).userId
               = accepted[i].userId

\* C29: because a submit is accepted only at elapsed >= 15 s, every
\* persisted GameResult has timeRemaining <= GAME_DURATION_SECONDS -
\* MIN_GAME_DURATION_SECONDS (75), bonus <= 750 and totalPoints <= 1550, and
\* one accepted at elapsed >= 90.5 s has timeRemaining 0 and bonus 0.
BonusCeiling ==
    \A i \in DOMAIN games :
        /\ games[i].timeRemaining
               <= GAME_DURATION_SECONDS - MIN_GAME_DURATION_SECONDS
        /\ games[i].bonus
               <= (GAME_DURATION_SECONDS - MIN_GAME_DURATION_SECONDS) * 10
        /\ games[i].totalPoints
               <= MAX_SCORE
                    + (GAME_DURATION_SECONDS - MIN_GAME_DURATION_SECONDS) * 10
        /\ games[i].bonus = games[i].timeRemaining * 10
        /\ games[i].totalPoints = games[i].score + games[i].bonus
        /\ accepted[i].elapsedMs >= GAME_DURATION_SECONDS * 1000 + 500 =>
               games[i].timeRemaining = 0 /\ games[i].bonus = 0

\* A full board submitted at exactly 15 s got the ceiling: 75 s, 750 and
\* 1550.
BonusCeilingReached ==
    \E i \in DOMAIN games :
        /\ accepted[i].elapsedMs = MIN_GAME_DURATION_SECONDS * 1000
        /\ games[i].timeRemaining = 75
        /\ games[i].bonus = 750
        /\ games[i].totalPoints = 1550

\* The answers of the session, ownership and timing checks.
SessionVerdicts ==
    {"MissingSession", "InvalidOrExpiredSession", "SessionOwnershipMismatch",
     "TooFast", "SessionExpired"}

\* The stamps an address's list has taken since the observation began.
StampsSince(ip) ==
    {IpSubmissions(ip)[i] :
        i \in {j \in DOMAIN IpSubmissions(ip) : IpSubmissions(ip)[j] >= T0}}

\* C30: the address recorded in the session is not an enforcement key.  In
\* the same state, for the same caller and payload, a submit gets the same
\* session, ownership and timing answer from whichever address it is sent,
\* the recorded one or another; the IP quota is decided by the list of the
\* address the request comes from, and an accepted submit is charged to
\* that address alone.
SourceIpNotEnforced ==
    /\ \A u \in Users, body \in AllBodies :
          /\ \A a, b \in IPs :
                 SubmitOutcome(u, a, body).msg \in SessionVerdicts =>
                    SubmitOutcome(u, b, body) = SubmitOutcome(u, a, body)
          /\ \A a \in IPs :
                 SubmitOutcome(u, a, body).msg \notin SessionVerdicts =>
                    (SubmitOutcome(u, a, body).msg = "IpQuotaExceeded"
                        <=> StampsInHour(a) >= MAX_GAMES_PER_IP_PER_HOUR)
    /\ \A ip \in IPs :
          StampsSince(ip) \subseteq
              {accepted[i].now : i \in {j \in DOMAIN accepted : accepted[j].ip = ip}}
    /\ accepted # << >> =>
          accepted[Len(accepted)].now
              \in StampsSince(accepted[Len(accepted)].ip)

\* A session started from "ip1" has been submitted from "ip2" and accepted,
\* and the stamp went to the list of "ip2"; "ip1", at its quota, would have
\* been refused.
AcceptedFromOtherAddress ==
    /\ resp.status = 201
    /\ accepted[Len(accepted)].ip = "ip2"
    /\ \A g \in issued : g \in DOMAIN gameSessions => gameSessions[g].ip = "ip1"
    /\ StampsSince("ip2") = {now}
    /\ StampsSince("ip1") = {}
    /\ StampsInHour("ip1") >= MAX_GAMES_PER_IP_PER_HOUR

\* C26: after every call of rateLimitMiddleware rateLimitMap has at most
\* MAX_MAP_SIZE + 1 entries; a cleanup leaves at most MAX_MAP_SIZE, and when
\* the map is still oversized after the expired entries are dropped it
\* evicts in increasing resetTime order until MAX_MAP_SIZE entries are left:
\* the entries kept stay in their order and none of them has a smaller
\* resetTime than an evicted one.
MapBounded ==
    /\ Len(rateLimitMap) <= MAX_MAP_SIZE + 1
    /\ \A key \in IPs : Len(RateAfter(key)) <= MAX_MAP_SIZE + 1
    /\ ShouldCleanup =>
          LET dropped == DropExpired(rateLimitMap)
              cleaned == CleanedMap
              keptKeys == RateKeys(cleaned)
              kept(e) == e.key \in keptKeys
              evicted == {i \in DOMAIN dropped : dropped[i].key \notin keptKeys}
          IN  /\ Len(cleaned) <= MAX_MAP_SIZE
              /\ cleaned = SelectSeq(dropped, kept)
              /\ Len(dropped) <= MAX_MAP_SIZE => cleaned = dropped
              /\ Len(dropped) > MAX_MAP_SIZE =>
                     /\ Len(cleaned) = MAX_MAP_SIZE
                     /\ \A i \in evicted : \A j \in DOMAIN cleaned :
                            dropped[i].resetTime <= cleaned[j].resetTime

\* The full map took one more address, a cleanup evicted the oldest record,
\* that of "ip1" before its window had ended, and the request of "ip1" that
\* caused it was entered again: MAX_MAP_SIZE + 1 entries.
MapRefilledAfterEviction ==
    /\ Len(rateLimitMap) = MAX_MAP_SIZE + 1
    /\ now < FirstWindowEnd
    /\ "ip1" \in RateKeys(rateLimitMap)
    /\ RecordOf(rateLimitMap, "ip1").count = 1

\* C27: eviction does not lift the limit.  "ip1" has had its RATE_LIMIT_MAX
\* requests in the window that ends at FirstWindowEnd, so whatever the other
\* addresses send, no further request of "ip1" is let through before that
\* window ends.
EvictionKeepsLimit ==
    now < FirstWindowEnd => RateOutcome("ip1") = Reject(429, "RateLimited")

====
